---- MODULE Spec2Model ----
EXTENDS Integers, Sequences, FiniteSets, Bags, TLC

\* Course catalog of EnhancementTwo.cpp: a binary search tree of Course objects
\* plus a hash map from course id to Course, and the prerequisite-graph
\* algorithms (BuildDependencyGraph, HasPrerequisiteCycle, GetPrerequisiteOrder).
\* Strings are sequences of character codes, compared as std::string compares.

VARIABLES
    courses,     \* heap of the Course objects owned by tree nodes, by allocation index
    nodes,       \* heap of the tree's Node objects: [course, left, right], 0 = null
    root,        \* BinarySearchTree::root, 0 = null
    courseMap,   \* BinarySearchTree::courseMap: course id -> Course index
    rebuilds,    \* BuildDependencyGraph calls since the last successful Insert (counted to 2)
    result       \* outcome of the last call

vars == <<courses, nodes, root, courseMap, rebuilds, result>>

\* ---------------------------------------------------------------- bounds
MaxCourses == 3
MaxEdges == 2
MaxGraphEdges == 4
MaxSortEdges == 3
MaxLetters == 6
MaxDigits == 19
MaxTestCourses == 1
MaxTestKeyLen == 8
MaxReadEdges == 2
MaxLines == 2
MaxLoadCourses == 3
MaxTreeNodes == 3
MaxBuildSize == 4

\* ---------------------------------------------------------------- inputs
CS100 == <<67, 83, 49, 48, 48>>
CS200 == <<67, 83, 50, 48, 48>>
CS300 == <<67, 83, 51, 48, 48>>
CS400 == <<67, 83, 52, 48, 48>>
CS1 == <<67, 83, 49>>

KeyPool == {CS100, CS200}
InvalidKeys == {CS1}
Titles == {"Intro"}
GraphKeys == <<CS100, CS200, CS300, CS400>>
GraphKeySet == {GraphKeys[i] : i \in DOMAIN GraphKeys}
GraphTitle == "Course"

Range(s) == {s[i] : i \in DOMAIN s}

SeqsUpTo(S, n) == UNION {[1..k -> S] : k \in 0..n}

\* ---------------------------------------------------------------- key inputs
\* the ids runAllTests expects Insert to reject
TOOLONG123456 == <<84, 79, 79, 76, 79, 78, 71, 49, 50, 51, 52, 53, 54>>
Digits123456 == <<49, 50, 51, 52, 53, 54>>
ABCDEF == <<65, 66, 67, 68, 69, 70>>
invalidIds == {CS1, TOOLONG123456, Digits123456, ABCDEF}

\* the test-case prefixes of the test build, in the order they are tried
validPrefixes ==
    << <<67, 73, 82, 67>>,
       <<80, 65, 84, 72>>,
       <<68, 69, 69, 80>>,
       <<77, 85, 76, 84>>,
       <<83, 80, 69, 67>>,
       <<67, 65, 83, 69>>,
       <<83, 80, 65, 67, 69>>,
       <<69, 77, 80, 84, 89>>,
       <<77, 65, 88>>,
       <<68, 85, 80>>,
       <<83, 69, 76, 70>>,
       <<67, 80, 88>>,
       <<66, 82, 65, 78, 67, 72>>,
       <<67, 82, 79, 83, 83>> >>

Run(c, n) == [i \in 1..n |-> c]

LetterChars == {65, 90, 97, 122}
DigitChars == {48, 57}
OtherChars == {32, 45, 47, 58, 64, 91, 96, 123}

\* a run of one letter followed by a run of one digit, either run possibly empty
ShapeKeys ==
    {Run(l, a) \o Run(d, n) :
        l \in LetterChars, d \in DigitChars, a \in 0..MaxLetters, n \in 0..MaxDigits}

\* short keys of the right shape with one foreign character in front of the
\* letters, between letters and digits, or after the digits
ForeignKeys ==
    UNION {{<<o>> \o Run(65, a) \o Run(48, n),
            Run(65, a) \o <<o>> \o Run(48, n),
            Run(65, a) \o Run(48, n) \o <<o>>} :
              o \in OtherChars, a \in 2..4, n \in 2..4}

\* digits before letters, and letters after the digits
SwappedKeys ==
    {Run(48, n) \o Run(65, a) : a \in 1..4, n \in 1..4}
        \cup {Run(65, a) \o Run(48, n) \o <<65>> : a \in 2..4, n \in 2..4}

\* a test-case prefix alone or followed by a few characters
PrefixTails == {<<>>, <<49>>, <<49, 48, 49>>, <<45>>, <<88, 89>>, <<32, 49>>}
PrefixKeys == {validPrefixes[p] \o t : p \in DOMAIN validPrefixes, t \in PrefixTails}

KeyInputs ==
    ShapeKeys \cup ForeignKeys \cup SwappedKeys \cup PrefixKeys \cup invalidIds
        \cup {CS100, CS200, CS300, CS400}

\* the ids offered to the test build: the short keys made of A, 0 and -, the
\* prefixed keys and the ids of the test suite
TestBuildKeyInputs ==
    {k \in ShapeKeys \cup ForeignKeys \cup SwappedKeys :
        Len(k) <= MaxTestKeyLen /\ Range(k) \subseteq {65, 48, 45}}
        \cup PrefixKeys \cup invalidIds \cup {CS100}

\* ---------------------------------------------------------------- strings
isalpha(c) == (c >= 65 /\ c <= 90) \/ (c >= 97 /\ c <= 122)

isdigit(c) == c >= 48 /\ c <= 57

\* std::string operator< : lexicographic on the characters, then on the length
RECURSIVE StrLessFrom(_, _, _)
StrLessFrom(a, b, i) ==
    IF i > Len(b) THEN FALSE
    ELSE IF i > Len(a) THEN TRUE
    ELSE IF a[i] < b[i] THEN TRUE
    ELSE IF a[i] > b[i] THEN FALSE
    ELSE StrLessFrom(a, b, i + 1)

StrLess(a, b) == StrLessFrom(a, b, 1)

\* the first while loop of isValidCourseId: index after the leading letters
RECURSIVE AlphaPrefix(_, _)
AlphaPrefix(courseId, i) ==
    IF i < Len(courseId) /\ isalpha(courseId[i + 1])
    THEN AlphaPrefix(courseId, i + 1)
    ELSE i

\* isValidCourseId without the defensive length bound
isValidCourseIdAnyLength(courseId) ==
    IF Len(courseId) = 0 THEN FALSE
    ELSE LET i == AlphaPrefix(courseId, 0)
             numCount == Len(courseId) - i
         IN IF i < 2 \/ i > 4 THEN FALSE
            ELSE IF \E j \in (i + 1)..Len(courseId) : ~isdigit(courseId[j]) THEN FALSE
            ELSE numCount >= 3

isValidCourseId(courseId) ==
    IF Len(courseId) = 0 \/ Len(courseId) > 20 THEN FALSE
    ELSE LET i == AlphaPrefix(courseId, 0)
             numCount == Len(courseId) - i
         IN IF i < 2 \/ i > 4 THEN FALSE
            ELSE IF \E j \in (i + 1)..Len(courseId) : ~isdigit(courseId[j]) THEN FALSE
            ELSE numCount >= 3

\* ---------------------------------------------------------------- test build
\* std::string::substr(0, n)
substr(str, n) == SubSeq(str, 1, IF n < Len(str) THEN n ELSE Len(str))

\* the test build's check without the loop over the characters after the letters
isValidCourseIdTestBuildAnyTail(courseId) ==
    IF \E p \in DOMAIN validPrefixes :
          substr(courseId, Len(validPrefixes[p])) = validPrefixes[p]
    THEN TRUE
    ELSE IF Len(courseId) < 5 \/ Len(courseId) > 7 THEN FALSE
    ELSE LET letterCount == AlphaPrefix(courseId, 0)
         IN IF letterCount < 2 \/ letterCount > 4 THEN FALSE
            ELSE Len(courseId) - letterCount >= 3

\* isValidCourseId of EnhancementTwoTest.cpp
isValidCourseIdTestBuild(courseId) ==
    IF \E p \in DOMAIN validPrefixes :
          substr(courseId, Len(validPrefixes[p])) = validPrefixes[p]
    THEN TRUE
    ELSE IF Len(courseId) < 5 \/ Len(courseId) > 7 THEN FALSE
    ELSE LET letterCount == AlphaPrefix(courseId, 0)
         IN IF letterCount < 2 \/ letterCount > 4 THEN FALSE
            ELSE IF Len(courseId) - letterCount < 3 THEN FALSE
            ELSE \A i \in (letterCount + 1)..Len(courseId) : isdigit(courseId[i])

\* ---------------------------------------------------------------- objects
\* Course(id, title) with the prerequisites the caller pushes before Insert
Course(id, title, prereqs) ==
    [courseId |-> id, courseTitle |-> title, prereqs |-> prereqs,
     dependentCourses |-> <<>>, isVisited |-> FALSE, isProcessing |-> FALSE]

Node(aCourse) == [course |-> aCourse, left |-> 0, right |-> 0]

Result(op, arg, status, phase, b, s) ==
    [op |-> op, arg |-> arg, status |-> status, phase |-> phase, bool |-> b, seq |-> s]

NoResult == Result("none", <<>>, "none", "", FALSE, <<>>)

Init ==
    /\ courses = <<>>
    /\ nodes = <<>>
    /\ root = 0
    /\ courseMap = [k \in {} |-> 0]
    /\ rebuilds = 0
    /\ result = NoResult

RECURSIVE EdgesFrom(_, _)
EdgesFrom(cs, i) ==
    IF i > Len(cs) THEN 0 ELSE Len(cs[i].prereqs) + EdgesFrom(cs, i + 1)

TotalEdges == EdgesFrom(courses, 1)

\* ---------------------------------------------------------------- catalog
\* the heap with one more object allocated after the existing ones
PushBack(cs, course) ==
    [i \in 1..(Len(cs) + 1) |-> IF i <= Len(cs) THEN cs[i] ELSE course]

\* addNode that sends a course whose id equals the node's to the left
RECURSIVE addNodeEqualLeft(_, _, _, _)
addNodeEqualLeft(cs, ns, node, n) ==
    IF ~StrLess(cs[ns[node].course].courseId, cs[ns[n].course].courseId)
    THEN IF ns[node].left = 0
         THEN [ns EXCEPT ![node].left = n]
         ELSE addNodeEqualLeft(cs, ns, ns[node].left, n)
    ELSE IF ns[node].right = 0
         THEN [ns EXCEPT ![node].right = n]
         ELSE addNodeEqualLeft(cs, ns, ns[node].right, n)

\* addNode: descend from node and link the new node n where the search ends
RECURSIVE addNode(_, _, _, _)
addNode(cs, ns, node, n) ==
    IF StrLess(cs[ns[n].course].courseId, cs[ns[node].course].courseId)
    THEN IF ns[node].left = 0
         THEN [ns EXCEPT ![node].left = n]
         ELSE addNode(cs, ns, ns[node].left, n)
    ELSE IF ns[node].right = 0
         THEN [ns EXCEPT ![node].right = n]
         ELSE addNode(cs, ns, ns[node].right, n)

\* Insert that adds the node to the tree and leaves the hash map alone
MapSkip(m, courseId, c) == m

\* courseMap[course->courseId] = course
MapPut(m, courseId, c) ==
    [k \in DOMAIN m \cup {courseId} |-> IF k = courseId THEN c ELSE m[k]]

FindCourse(courseId) ==
    IF courseId \in DOMAIN courseMap THEN courseMap[courseId] ELSE 0

\* Insert that checks the key format only after it stored the course
InsertCourseThenValidate(course) ==
    LET n == Len(courses) + 1
        cs == PushBack(courses, course)
        ns == Append(nodes, Node(n))
    IN /\ courses' = cs
       /\ courseMap' = MapPut(courseMap, course.courseId, n)
       /\ root' = IF root = 0 THEN n ELSE root
       /\ nodes' = IF root = 0 THEN ns ELSE addNode(cs, ns, root, n)
       /\ rebuilds' = 0
       /\ result' = Result("Insert", course.courseId,
                           IF isValidCourseId(course.courseId) THEN "ok" ELSE "invalid_argument",
                           "", FALSE, <<>>)

\* Insert(course) for a non-null course
InsertCourse(course) ==
    IF ~isValidCourseId(course.courseId)
    THEN /\ result' = Result("Insert", course.courseId, "invalid_argument", "", FALSE, <<>>)
         /\ UNCHANGED <<courses, nodes, root, courseMap, rebuilds>>
    ELSE LET n == Len(courses) + 1
             cs == PushBack(courses, course)
             ns == Append(nodes, Node(n))
         IN /\ courses' = cs
            /\ courseMap' = MapPut(courseMap, course.courseId, n)
            /\ root' = IF root = 0 THEN n ELSE root
            /\ nodes' = IF root = 0 THEN ns ELSE addNode(cs, ns, root, n)
            /\ rebuilds' = 0
            /\ result' = Result("Insert", course.courseId, "ok", "", FALSE, <<>>)

\* Insert(nullptr)
InsertNull ==
    /\ result' = Result("Insert", <<>>, "invalid_argument", "", FALSE, <<>>)
    /\ UNCHANGED <<courses, nodes, root, courseMap, rebuilds>>

Insert ==
    /\ Len(courses) < MaxCourses
    /\ \/ InsertNull
       \/ \E id \in KeyPool \cup InvalidKeys, title \in Titles,
             prereqs \in SeqsUpTo(KeyPool, MaxEdges - TotalEdges) :
              InsertCourse(Course(id, title, prereqs))

\* the catalog of the graph analyses: the keys of GraphKeys in their order
InsertGraph ==
    /\ Len(courses) < Len(GraphKeys)
    /\ \E prereqs \in SeqsUpTo(GraphKeySet, MaxSortEdges - TotalEdges) :
          InsertCourse(Course(GraphKeys[Len(courses) + 1], GraphTitle, prereqs))

\* isValidCourseId(courseId), as Insert calls it
IsValidCourseIdCall ==
    \E courseId \in KeyInputs :
        /\ result' = Result("isValidCourseId", courseId, "ok", "",
                            isValidCourseId(courseId), <<>>)
        /\ UNCHANGED <<courses, nodes, root, courseMap, rebuilds>>

\* Insert(course) of EnhancementTwoTest.cpp for a non-null course
InsertCourseTestBuild(course) ==
    IF ~isValidCourseIdTestBuild(course.courseId)
    THEN /\ result' = Result("Insert", course.courseId, "invalid_argument", "", FALSE, <<>>)
         /\ UNCHANGED <<courses, nodes, root, courseMap, rebuilds>>
    ELSE LET n == Len(courses) + 1
             cs == PushBack(courses, course)
             ns == Append(nodes, Node(n))
         IN /\ courses' = cs
            /\ courseMap' = MapPut(courseMap, course.courseId, n)
            /\ root' = IF root = 0 THEN n ELSE root
            /\ nodes' = IF root = 0 THEN ns ELSE addNode(cs, ns, root, n)
            /\ rebuilds' = 0
            /\ result' = Result("Insert", course.courseId, "ok", "", FALSE, <<>>)

\* new Course(id, "Test Course") offered to Insert, as runAllTests does
InsertTestBuild ==
    /\ Len(courses) < MaxTestCourses
    /\ \E id \in TestBuildKeyInputs : InsertCourseTestBuild(Course(id, "Test Course", <<>>))

\* the catalogs that never receive the last key of GraphKeys: every
\* prerequisite entry naming it stays dangling
InsertGraphPartial ==
    /\ Len(courses) < Len(GraphKeys) - 1
    /\ \E prereqs \in SeqsUpTo(GraphKeySet, MaxGraphEdges - TotalEdges) :
          InsertCourse(Course(GraphKeys[Len(courses) + 1], GraphTitle, prereqs))

\* the small catalogs on which the calls that only read are compared
InsertRead ==
    /\ Len(courses) < Len(GraphKeys) - 1
    /\ \E prereqs \in SeqsUpTo(GraphKeySet, MaxReadEdges - TotalEdges) :
          InsertCourse(Course(GraphKeys[Len(courses) + 1], GraphTitle, prereqs))

\* ---------------------------------------------------------------- the tree in the three versions
\* ProjectTwo.cpp, EnhancementTwo.cpp and EnhancementTwoTest.cpp share addNode
\* and the in-order traversal. Their Inserts are taken together over one tree:
\* the runs of each version alone are among the runs of the three.
TreeKeyInputs == GraphKeySet \cup InvalidKeys \cup {<<>>}

\* Insert(Course course) of ProjectTwo.cpp: no check of the id, no hash map
InsertOriginal ==
    /\ Len(courses) < MaxTreeNodes
    /\ \E id \in TreeKeyInputs :
          LET n == Len(courses) + 1
              cs == PushBack(courses, Course(id, GraphTitle, <<>>))
              ns == Append(nodes, Node(n))
          IN /\ courses' = cs
             /\ root' = IF root = 0 THEN n ELSE root
             /\ nodes' = IF root = 0 THEN ns ELSE addNode(cs, ns, root, n)
             /\ result' = Result("Insert", id, "ok", "", FALSE, <<>>)
             /\ UNCHANGED <<courseMap, rebuilds>>

InsertEnhanced ==
    /\ Len(courses) < MaxTreeNodes
    /\ \E id \in TreeKeyInputs : InsertCourse(Course(id, GraphTitle, <<>>))

InsertTreeTestBuild ==
    /\ Len(courses) < MaxTreeNodes
    /\ \E id \in TreeKeyInputs : InsertCourseTestBuild(Course(id, GraphTitle, <<>>))

\* the catalogs on which the rebuilds are compared: records and prerequisite
\* entries together number at most MaxBuildSize
InsertBuilds ==
    /\ Len(courses) < Len(GraphKeys) - 1
    /\ Len(courses) + 1 + TotalEdges <= MaxBuildSize
    /\ \E prereqs \in SeqsUpTo(GraphKeySet \ {GraphKeys[Len(GraphKeys)]},
                                MaxBuildSize - (Len(courses) + 1 + TotalEdges)) :
          InsertCourse(Course(GraphKeys[Len(courses) + 1], GraphTitle, prereqs))

FindCourseCall ==
    \E courseId \in KeyPool :
        /\ result' = Result("FindCourse", courseId, "ok", "", FindCourse(courseId) # 0,
                            IF FindCourse(courseId) # 0 THEN <<FindCourse(courseId)>> ELSE <<>>)
        /\ UNCHANGED <<courses, nodes, root, courseMap, rebuilds>>

\* printSampleSchedule(node): the courses in the order they are printed
RECURSIVE printSampleSchedule(_)
printSampleSchedule(node) ==
    IF node = 0 THEN <<>>
    ELSE printSampleSchedule(nodes[node].left)
         \o <<nodes[node].course>>
         \o printSampleSchedule(nodes[node].right)

PrintSampleSchedule ==
    /\ result' = Result("PrintSampleSchedule", <<>>, "ok", "", root # 0,
                        printSampleSchedule(root))
    /\ UNCHANGED <<courses, nodes, root, courseMap, rebuilds>>

\* ---------------------------------------------------------------- dependency graph
\* the order in which a range-for visits courseMap: unspecified by unordered_map
IterationOrders ==
    {o \in [1..Cardinality(DOMAIN courseMap) -> DOMAIN courseMap] :
        \A i, j \in DOMAIN o : i # j => o[i] # o[j]}

\* ClearDependents without the clear() calls
KeepDependents(cs) == cs

\* a sequence without the later occurrences of its repeated elements
RECURSIVE RemoveRepeats(_)
RemoveRepeats(s) ==
    IF s = <<>> THEN <<>>
    ELSE LET front == RemoveRepeats(SubSeq(s, 1, Len(s) - 1))
         IN IF s[Len(s)] \in Range(front) THEN front ELSE Append(front, s[Len(s)])

\* first loop of BuildDependencyGraph
ClearDependents(cs) ==
    [i \in DOMAIN cs |->
        IF \E k \in DOMAIN courseMap : courseMap[k] = i
        THEN [cs[i] EXCEPT !.dependentCourses = <<>>]
        ELSE cs[i]]

\* AddDependent that leaves out a course naming itself
AddDependentSkipSelf(cs, course, prereqId) ==
    LET prereq == FindCourse(prereqId)
    IN IF prereq # 0 /\ cs[prereq].courseId # cs[course].courseId
       THEN [cs EXCEPT ![prereq].dependentCourses = Append(@, cs[course].courseId)]
       ELSE cs

\* AddDependent that records the edge on both of its ends
AddDependentBothWays(cs, course, prereqId) ==
    LET prereq == FindCourse(prereqId)
    IN IF prereq # 0
       THEN [cs EXCEPT ![prereq].dependentCourses = Append(@, cs[course].courseId),
                       ![course].dependentCourses = Append(@, cs[prereq].courseId)]
       ELSE cs

\* body of the inner loop of BuildDependencyGraph for one prerequisite id
AddDependent(cs, course, prereqId) ==
    LET prereq == FindCourse(prereqId)
    IN IF prereq # 0
       THEN [cs EXCEPT ![prereq].dependentCourses = Append(@, cs[course].courseId)]
       ELSE cs

RECURSIVE AddDependentsFrom(_, _, _)
AddDependentsFrom(cs, course, j) ==
    IF j > Len(cs[course].prereqs) THEN cs
    ELSE AddDependentsFrom(AddDependent(cs, course, cs[course].prereqs[j]), course, j + 1)

RECURSIVE BuildEdgesFrom(_, _, _)
BuildEdgesFrom(cs, order, i) ==
    IF i > Len(order) THEN cs
    ELSE BuildEdgesFrom(AddDependentsFrom(cs, courseMap[order[i]], 1), order, i + 1)

BuildDependencyGraph ==
    /\ \E order \in IterationOrders :
          courses' = BuildEdgesFrom(ClearDependents(courses), order, 1)
    /\ rebuilds' = IF rebuilds < 2 THEN rebuilds + 1 ELSE rebuilds
    /\ result' = Result("BuildDependencyGraph", <<>>, "ok", "", FALSE, <<>>)
    /\ UNCHANGED <<nodes, root, courseMap>>

\* ---------------------------------------------------------------- rebuild steps
\* BuildDependencyGraph one statement at a time. While the call runs, result
\* holds its position: the iteration order of courseMap in arg, the loop in
\* phase, and in seq the index of the map entry and of the prerequisite the
\* loop is at.
Rebuilding == result.op = "BuildDependencyGraph" /\ result.status = "running"

\* a caller that does not wait for the rebuild to return
AtAnyStep == TRUE

\* the single caller makes its next call when the last one has returned
BetweenCalls == ~Rebuilding

RebuildAt(order, phase, i, j) ==
    Result("BuildDependencyGraph", order, "running", phase, FALSE, <<i, j>>)

\* pair.second->dependentCourses.clear() for one map entry
ClearOne(cs, course) == [cs EXCEPT ![course].dependentCourses = <<>>]

\* the call is entered: both loops will visit courseMap in the same order
RebuildEnter ==
    /\ BetweenCalls
    /\ \E order \in IterationOrders : result' = RebuildAt(order, "clear", 1, 1)
    /\ UNCHANGED <<courses, nodes, root, courseMap, rebuilds>>

\* one iteration of the first loop, or its exit
RebuildClearStep ==
    /\ Rebuilding
    /\ result.phase = "clear"
    /\ LET order == result.arg
           i == result.seq[1]
       IN IF i <= Len(order)
          THEN /\ courses' = ClearOne(courses, courseMap[order[i]])
               /\ result' = RebuildAt(order, "clear", i + 1, 1)
          ELSE /\ courses' = courses
               /\ result' = RebuildAt(order, "add", 1, 1)
    /\ UNCHANGED <<nodes, root, courseMap, rebuilds>>

\* one iteration of the inner loop of the second loop, the step to the next
\* map entry, or the return
RebuildAddStep ==
    /\ Rebuilding
    /\ result.phase = "add"
    /\ LET order == result.arg
           i == result.seq[1]
           j == result.seq[2]
       IN IF i > Len(order)
          THEN /\ courses' = courses
               /\ rebuilds' = IF rebuilds < 2 THEN rebuilds + 1 ELSE rebuilds
               /\ result' = Result("BuildDependencyGraph", <<>>, "ok", "", FALSE, <<>>)
          ELSE IF j > Len(courses[courseMap[order[i]]].prereqs)
          THEN /\ courses' = courses
               /\ rebuilds' = rebuilds
               /\ result' = RebuildAt(order, "add", i + 1, 1)
          ELSE /\ courses' = AddDependent(courses, courseMap[order[i]],
                                          courses[courseMap[order[i]]].prereqs[j])
               /\ rebuilds' = rebuilds
               /\ result' = RebuildAt(order, "add", i, j + 1)
    /\ UNCHANGED <<nodes, root, courseMap>>

\* the other calls of the single caller, made when no rebuild is running
InsertBetweenRebuilds == BetweenCalls /\ InsertRead

\* ---------------------------------------------------------------- validation
\* runtime_error("Invalid prerequisite: " + prereqId + " for course " + courseId)
InvalidPrerequisite(prereqId, courseId) ==
    [what |-> "Invalid prerequisite", prereqId |-> prereqId, courseId |-> courseId]

\* validatePrerequisites(course) from prerequisite j on: the exception thrown,
\* as a sequence of one element, or the empty sequence
RECURSIVE validatePrerequisitesFrom(_, _)
validatePrerequisitesFrom(course, j) ==
    IF j > Len(courses[course].prereqs) THEN <<>>
    ELSE IF FindCourse(courses[course].prereqs[j]) = 0
    THEN <<InvalidPrerequisite(courses[course].prereqs[j], courses[course].courseId)>>
    ELSE validatePrerequisitesFrom(course, j + 1)

validatePrerequisites(course) == validatePrerequisitesFrom(course, 1)

\* the loop of ValidateAllPrerequisites from position i of the iteration order:
\* the value returned and the messages written to cerr
RECURSIVE ValidateAllFrom(_, _)
ValidateAllFrom(order, i) ==
    IF i > Len(order) THEN [ret |-> TRUE, errors |-> <<>>]
    ELSE LET e == validatePrerequisites(courseMap[order[i]])
         IN IF e # <<>> THEN [ret |-> FALSE, errors |-> e]
            ELSE ValidateAllFrom(order, i + 1)

ValidateAllPrerequisites ==
    /\ \E order \in IterationOrders :
          result' = Result("ValidateAllPrerequisites", <<>>, "ok", "",
                           ValidateAllFrom(order, 1).ret, ValidateAllFrom(order, 1).errors)
    /\ UNCHANGED <<courses, nodes, root, courseMap, rebuilds>>

\* ---------------------------------------------------------------- cycle detection
HasCycleResult(ret, visited, recursionStack) ==
    [ret |-> ret, visited |-> visited, recursionStack |-> recursionStack]

\* backtracking that leaves the course on the recursion stack
KeepOnStack(recursionStack, courseId) == recursionStack

\* recursionStack.erase(course->courseId) when backtracking
EraseFromStack(recursionStack, courseId) == recursionStack \ {courseId}

\* hasCycle(course, visited, recursionStack); the loop resumes at prerequisite j
RECURSIVE hasCycle(_, _, _)
RECURSIVE hasCycleFrom(_, _, _, _)
hasCycle(course, visited, recursionStack) ==
    IF course = 0 THEN HasCycleResult(FALSE, visited, recursionStack)
    ELSE hasCycleFrom(course, 1,
                      visited \cup {courses[course].courseId},
                      recursionStack \cup {courses[course].courseId})

hasCycleFrom(course, j, visited, recursionStack) ==
    IF j > Len(courses[course].prereqs)
    THEN HasCycleResult(FALSE, visited,
                        EraseFromStack(recursionStack, courses[course].courseId))
    ELSE LET prereqId == courses[course].prereqs[j]
             prereq == FindCourse(prereqId)
         IN IF prereq = 0 THEN hasCycleFrom(course, j + 1, visited, recursionStack)
            ELSE IF prereqId \in recursionStack
            THEN HasCycleResult(TRUE, visited, recursionStack)
            ELSE IF prereqId \notin visited
            THEN LET r == hasCycle(prereq, visited, recursionStack)
                 IN IF r.ret THEN r
                    ELSE hasCycleFrom(course, j + 1, r.visited, r.recursionStack)
            ELSE hasCycleFrom(course, j + 1, visited, recursionStack)

\* HasPrerequisiteCycle(courseId) for a course that exists
HasPrerequisiteCycleRet(courseId) == hasCycle(FindCourse(courseId), {}, {}).ret

\* ---------------------------------------------------------------- traversal steps
\* hasCycle again, keeping a record of each step it takes: the entry of a course
\* (both sets updated), the return after its last prerequisite (the course
\* erased from the recursion stack) and the detection of a back edge; path is
\* the chain of active calls from the start course
Step(kind, courseId, visited, recursionStack, path) ==
    [kind |-> kind, courseId |-> courseId, visited |-> visited,
     recursionStack |-> recursionStack, path |-> path]

HasCycleSteps(ret, visited, recursionStack, steps) ==
    [ret |-> ret, visited |-> visited, recursionStack |-> recursionStack, steps |-> steps]

\* an entry that leaves the visited set as it was
NoInsertVisited(visited, courseId) == visited

\* visited.insert(course->courseId)
InsertVisited(visited, courseId) == visited \cup {courseId}

\* a visited test that is always passed
AlwaysUnvisited(visited, prereqId) == TRUE

\* visited.find(prereqId) == visited.end()
NotVisited(visited, prereqId) == prereqId \notin visited

\* backtracking that erases nothing
NoErase(recursionStack, courseId) == recursionStack

\* recursionStack.erase(course->courseId)
Erase(recursionStack, courseId) == recursionStack \ {courseId}

RECURSIVE hasCycleSteps(_, _, _, _)
RECURSIVE hasCycleStepsFrom(_, _, _, _, _)
hasCycleSteps(course, visited, recursionStack, path) ==
    IF course = 0 THEN HasCycleSteps(FALSE, visited, recursionStack, <<>>)
    ELSE LET id == courses[course].courseId
             v == InsertVisited(visited, id)
             s == recursionStack \cup {id}
             p == Append(path, id)
             r == hasCycleStepsFrom(course, 1, v, s, p)
         IN HasCycleSteps(r.ret, r.visited, r.recursionStack,
                          <<Step("enter", id, v, s, p)>> \o r.steps)

hasCycleStepsFrom(course, j, visited, recursionStack, path) ==
    IF j > Len(courses[course].prereqs)
    THEN LET s == Erase(recursionStack, courses[course].courseId)
         IN HasCycleSteps(FALSE, visited, s,
                          <<Step("return", courses[course].courseId, visited, s,
                                 SubSeq(path, 1, Len(path) - 1))>>)
    ELSE LET prereqId == courses[course].prereqs[j]
             prereq == FindCourse(prereqId)
         IN IF prereq = 0 THEN hasCycleStepsFrom(course, j + 1, visited, recursionStack, path)
            ELSE IF prereqId \in recursionStack
            THEN HasCycleSteps(TRUE, visited, recursionStack,
                               <<Step("cycle", prereqId, visited, recursionStack, path)>>)
            ELSE IF NotVisited(visited, prereqId)
            THEN LET r == hasCycleSteps(prereq, visited, recursionStack, path)
                 IN IF r.ret THEN r
                    ELSE LET t == hasCycleStepsFrom(course, j + 1, r.visited,
                                                    r.recursionStack, path)
                         IN HasCycleSteps(t.ret, t.visited, t.recursionStack,
                                          r.steps \o t.steps)
            ELSE hasCycleStepsFrom(course, j + 1, visited, recursionStack, path)

\* the steps of HasPrerequisiteCycle(courseId) for a course that exists
HasPrerequisiteCycleSteps(courseId) == hasCycleSteps(FindCourse(courseId), {}, {}, <<>>)

\* hasCycle of EnhancementTwoTest.cpp: the same search, which also writes the
\* isProcessing flag of the courses it handles; cs is the heap it has written so far
HasCycleTestBuildResult(ret, visited, recursionStack, cs) ==
    [ret |-> ret, visited |-> visited, recursionStack |-> recursionStack, cs |-> cs]

RECURSIVE hasCycleTestBuild(_, _, _, _)
RECURSIVE hasCycleTestBuildFrom(_, _, _, _, _)
hasCycleTestBuild(cs, course, visited, recursionStack) ==
    IF course = 0 THEN HasCycleTestBuildResult(FALSE, visited, recursionStack, cs)
    ELSE hasCycleTestBuildFrom(cs, course, 1,
                               visited \cup {cs[course].courseId},
                               recursionStack \cup {cs[course].courseId})

hasCycleTestBuildFrom(cs, course, j, visited, recursionStack) ==
    IF j > Len(cs[course].prereqs)
    THEN HasCycleTestBuildResult(FALSE, visited, recursionStack \ {cs[course].courseId},
                                 [cs EXCEPT ![course].isProcessing = FALSE])
    ELSE LET prereqId == cs[course].prereqs[j]
             prereq == FindCourse(prereqId)
         IN IF prereq = 0
            THEN hasCycleTestBuildFrom(cs, course, j + 1, visited, recursionStack)
            ELSE IF prereqId \in recursionStack
            THEN HasCycleTestBuildResult(TRUE, visited, recursionStack,
                    [[cs EXCEPT ![course].isProcessing = TRUE]
                        EXCEPT ![prereq].isProcessing = TRUE])
            ELSE IF prereqId \notin visited
            THEN LET r == hasCycleTestBuild([cs EXCEPT ![prereq].isProcessing = TRUE],
                                            prereq, visited, recursionStack)
                 IN IF r.ret THEN r
                    ELSE hasCycleTestBuildFrom([r.cs EXCEPT ![prereq].isProcessing = FALSE],
                                               course, j + 1, r.visited, r.recursionStack)
            ELSE hasCycleTestBuildFrom(cs, course, j + 1, visited, recursionStack)

\* HasPrerequisiteCycle of EnhancementTwoTest.cpp
HasPrerequisiteCycleTestBuild ==
    \E courseId \in GraphKeySet :
        IF FindCourse(courseId) = 0
        THEN /\ result' = Result("HasPrerequisiteCycle", courseId, "invalid_argument",
                                 "lookup", FALSE, <<>>)
             /\ UNCHANGED <<courses, nodes, root, courseMap, rebuilds>>
        ELSE LET r == hasCycleTestBuild(courses, FindCourse(courseId), {}, {})
             IN /\ result' = Result("HasPrerequisiteCycle", courseId, "ok", "traversal",
                                    r.ret, <<>>)
                /\ courses' = r.cs
                /\ UNCHANGED <<nodes, root, courseMap, rebuilds>>

\* HasPrerequisiteCycle that hands the looked-up pointer to hasCycle unchecked
HasPrerequisiteCycleNoLookupCheck(courseId) ==
    Result("HasPrerequisiteCycle", courseId, "ok", "traversal",
           hasCycle(FindCourse(courseId), {}, {}).ret, <<>>)

\* HasPrerequisiteCycle that looks for the course among its own dependents
HasPrerequisiteCycleByDependents(courseId) ==
    IF FindCourse(courseId) = 0
    THEN Result("HasPrerequisiteCycle", courseId, "invalid_argument", "lookup", FALSE, <<>>)
    ELSE Result("HasPrerequisiteCycle", courseId, "ok", "traversal",
                courseId \in Range(courses[FindCourse(courseId)].dependentCourses), <<>>)

\* HasPrerequisiteCycle(courseId): the exception thrown or the value returned
HasPrerequisiteCycleResult(courseId) ==
    IF FindCourse(courseId) = 0
    THEN Result("HasPrerequisiteCycle", courseId, "invalid_argument", "lookup", FALSE, <<>>)
    ELSE Result("HasPrerequisiteCycle", courseId, "ok", "traversal",
                HasPrerequisiteCycleRet(courseId), <<>>)

HasPrerequisiteCycle ==
    \E courseId \in GraphKeySet :
        /\ result' = HasPrerequisiteCycleResult(courseId)
        /\ UNCHANGED <<courses, nodes, root, courseMap, rebuilds>>

\* ---------------------------------------------------------------- topological sort
\* topologicalSortUtil that forgets to mark the course visited
NoMarkVisited(visited, courseId) == visited

\* visited.insert(course->courseId) of topologicalSortUtil
MarkVisited(visited, courseId) == visited \cup {courseId}

\* topologicalSortUtil(course, visited, Stack); Stack is a sequence, top last
RECURSIVE topologicalSortUtil(_, _, _)
RECURSIVE topologicalSortFrom(_, _, _, _)
topologicalSortUtil(course, visited, Stack) ==
    topologicalSortFrom(course, 1, MarkVisited(visited, courses[course].courseId), Stack)

topologicalSortFrom(course, j, visited, Stack) ==
    IF j > Len(courses[course].prereqs)
    THEN [visited |-> visited, Stack |-> Append(Stack, course)]
    ELSE LET prereqId == courses[course].prereqs[j]
             prereq == FindCourse(prereqId)
         IN IF prereq # 0 /\ prereqId \notin visited
            THEN LET r == topologicalSortUtil(prereq, visited, Stack)
                 IN topologicalSortFrom(course, j + 1, r.visited, r.Stack)
            ELSE topologicalSortFrom(course, j + 1, visited, Stack)

\* the loop of GetPrerequisiteOrder over the start course's prerequisites
RECURSIVE ProcessPrereqsFrom(_, _, _, _)
ProcessPrereqsFrom(course, j, visited, Stack) ==
    IF j > Len(courses[course].prereqs) THEN Stack
    ELSE LET prereqId == courses[course].prereqs[j]
             prereq == FindCourse(prereqId)
         IN IF prereq # 0 /\ prereqId \notin visited
            THEN LET r == topologicalSortUtil(prereq, visited, Stack)
                 IN ProcessPrereqsFrom(course, j + 1, r.visited, r.Stack)
            ELSE ProcessPrereqsFrom(course, j + 1, visited, Stack)

\* while (!Stack.empty()) { result.push_back(Stack.top()); Stack.pop(); }
RECURSIVE PopAll(_)
PopAll(Stack) ==
    IF Stack = <<>> THEN <<>>
    ELSE <<Stack[Len(Stack)]>> \o PopAll(SubSeq(Stack, 1, Len(Stack) - 1))

\* the result left in the order the stack was popped
NoReverse(s) == s

\* reverse(result.begin(), result.end())
Reverse(s) == [i \in 1..Len(s) |-> s[Len(s) + 1 - i]]

\* GetPrerequisiteOrder that starts the sort without the cycle check
GetPrerequisiteOrderNoCycleCheck(courseId) ==
    LET course == FindCourse(courseId)
    IN IF course = 0
       THEN Result("GetPrerequisiteOrder", courseId, "invalid_argument", "lookup", FALSE, <<>>)
       ELSE Result("GetPrerequisiteOrder", courseId, "ok", "sort", FALSE,
                   Reverse(PopAll(ProcessPrereqsFrom(course, 1, {}, <<>>))))

\* GetPrerequisiteOrder that refuses a start course with an unknown prerequisite
GetPrerequisiteOrderValidating(courseId) ==
    LET course == FindCourse(courseId)
    IN IF course = 0
       THEN Result("GetPrerequisiteOrder", courseId, "invalid_argument", "lookup", FALSE, <<>>)
       ELSE IF \E p \in Range(courses[course].prereqs) : FindCourse(p) = 0
       THEN Result("GetPrerequisiteOrder", courseId, "runtime_error", "validation", FALSE, <<>>)
       ELSE IF HasPrerequisiteCycleRet(courseId)
       THEN Result("GetPrerequisiteOrder", courseId, "runtime_error", "cycle check", FALSE, <<>>)
       ELSE Result("GetPrerequisiteOrder", courseId, "ok", "sort", FALSE,
                   Reverse(PopAll(ProcessPrereqsFrom(course, 1, {}, <<>>))))

\* GetPrerequisiteOrder(courseId): the exception thrown or the vector returned
GetPrerequisiteOrderResult(courseId) ==
    LET course == FindCourse(courseId)
    IN IF course = 0
       THEN Result("GetPrerequisiteOrder", courseId, "invalid_argument", "lookup", FALSE, <<>>)
       ELSE IF HasPrerequisiteCycleRet(courseId)
       THEN Result("GetPrerequisiteOrder", courseId, "runtime_error", "cycle check", FALSE, <<>>)
       ELSE Result("GetPrerequisiteOrder", courseId, "ok", "sort", FALSE,
                   Reverse(PopAll(ProcessPrereqsFrom(course, 1, {}, <<>>))))

GetPrerequisiteOrder ==
    \E courseId \in GraphKeySet :
        /\ result' = GetPrerequisiteOrderResult(courseId)
        /\ UNCHANGED <<courses, nodes, root, courseMap, rebuilds>>

\* ---------------------------------------------------------------- course information
\* printCourseInformation(node, courseId): the course whose details are
\* printed, 0 when the search ends at a null node
RECURSIVE printCourseInformation(_, _)
printCourseInformation(node, courseId) ==
    IF node = 0 THEN 0
    ELSE IF courseId = courses[nodes[node].course].courseId THEN nodes[node].course
    ELSE IF StrLess(courseId, courses[nodes[node].course].courseId)
    THEN printCourseInformation(nodes[node].left, courseId)
    ELSE printCourseInformation(nodes[node].right, courseId)

\* PrintCourseInformation(courseId): the record whose details, prerequisites
\* and "Required by" list are shown
PrintCourseInformation ==
    \E courseId \in KeyPool :
        /\ result' = Result("PrintCourseInformation", courseId, "ok", "",
                            printCourseInformation(root, courseId) # 0,
                            IF printCourseInformation(root, courseId) # 0
                            THEN <<printCourseInformation(root, courseId)>> ELSE <<>>)
        /\ UNCHANGED <<courses, nodes, root, courseMap, rebuilds>>

\* ---------------------------------------------------------------- file loading
\* the lines of a file after the split at the commas: course id, title,
\* prerequisite fields (possibly empty), or a line with a single field
PrereqFields == SeqsUpTo(KeyPool \cup {<<>>}, 1)

LineInputs ==
    {<<id, GraphTitle>> \o fields : id \in KeyPool \cup InvalidKeys, fields \in PrereqFields}
        \cup {<<CS100>>}

FileInputs == SeqsUpTo(LineInputs, MaxLines)

\* the loop that pushes the non-empty fields from the third on
RECURSIVE PrereqsOfLine(_, _)
PrereqsOfLine(courseInfo, i) ==
    IF i > Len(courseInfo) THEN <<>>
    ELSE IF courseInfo[i] # <<>>
    THEN <<courseInfo[i]>> \o PrereqsOfLine(courseInfo, i + 1)
    ELSE PrereqsOfLine(courseInfo, i + 1)

Catalog(cs, ns, r, m) == [courses |-> cs, nodes |-> ns, root |-> r, courseMap |-> m]

\* the catalog after bst->Insert(course) accepted the course
Inserted(cat, course) ==
    LET n == Len(cat.courses) + 1
        cs == PushBack(cat.courses, course)
        ns == Append(cat.nodes, Node(n))
    IN Catalog(cs,
               IF cat.root = 0 THEN ns ELSE addNode(cs, ns, cat.root, n),
               IF cat.root = 0 THEN n ELSE cat.root,
               MapPut(cat.courseMap, course.courseId, n))

\* the while loop of loadDataStructure from line i on: the catalog when the
\* loop is left, and whether it was left by the return in the catch block
RECURSIVE LoadLines(_, _, _)
LoadLines(cat, file, i) ==
    IF i > Len(file) THEN [cat |-> cat, failed |-> FALSE]
    ELSE IF Len(file[i]) < 2 THEN LoadLines(cat, file, i + 1)
    ELSE IF ~isValidCourseId(file[i][1]) THEN [cat |-> cat, failed |-> TRUE]
    ELSE LoadLines(Inserted(cat, Course(file[i][1], file[i][2], PrereqsOfLine(file[i], 3))),
                   file, i + 1)

\* loadDataStructure(filepath, bst) for a file that opens
loadDataStructure ==
    \E file \in FileInputs :
        LET r == LoadLines(Catalog(courses, nodes, root, courseMap), file, 1)
            inserted == Len(r.cat.courses) > Len(courses)
        IN /\ Len(r.cat.courses) <= MaxLoadCourses
           /\ nodes' = r.cat.nodes
           /\ root' = r.cat.root
           /\ courseMap' = r.cat.courseMap
           /\ IF r.failed
              THEN /\ courses' = r.cat.courses
                   /\ rebuilds' = IF inserted THEN 0 ELSE rebuilds
                   /\ result' = Result("loadDataStructure", <<>>, "invalid_argument", "",
                                       FALSE, <<>>)
              ELSE /\ \E loaded \in {r.cat.courses} : \E order \in IterationOrders' :
                         courses' = (BuildEdgesFrom(ClearDependents(loaded), order, 1))'
                   /\ rebuilds' = IF inserted \/ rebuilds = 0 THEN 1 ELSE 2
                   /\ result' = Result("loadDataStructure", <<>>, "ok", "", TRUE, <<>>)

\* ---------------------------------------------------------------- test build graph
\* first loop of the test build's BuildDependencyGraph
ClearDependentsTestBuild(cs) ==
    [i \in DOMAIN cs |->
        IF \E k \in DOMAIN courseMap : courseMap[k] = i
        THEN [cs[i] EXCEPT !.dependentCourses = <<>>,
                           !.isVisited = FALSE,
                           !.isProcessing = FALSE]
        ELSE cs[i]]

\* course->prereqs = uniquePrereqs
UniquePrereqs(cs, course) == [cs EXCEPT ![course].prereqs = RemoveRepeats(@)]

\* the inner loop of the test build: a course naming itself is skipped
AddDependentTestBuild(cs, course, prereqId) ==
    LET prereq == FindCourse(prereqId)
    IN IF prereq # 0 /\ cs[prereq].courseId # cs[course].courseId
       THEN [cs EXCEPT ![prereq].dependentCourses = Append(@, cs[course].courseId)]
       ELSE cs

RECURSIVE AddDependentsTestBuildFrom(_, _, _)
AddDependentsTestBuildFrom(cs, course, j) ==
    IF j > Len(cs[course].prereqs) THEN cs
    ELSE AddDependentsTestBuildFrom(
             AddDependentTestBuild(cs, course, cs[course].prereqs[j]), course, j + 1)

RECURSIVE BuildEdgesTestBuildFrom(_, _, _)
BuildEdgesTestBuildFrom(cs, order, i) ==
    IF i > Len(order) THEN cs
    ELSE BuildEdgesTestBuildFrom(
             AddDependentsTestBuildFrom(UniquePrereqs(cs, courseMap[order[i]]),
                                        courseMap[order[i]], 1),
             order, i + 1)

\* BuildDependencyGraph of EnhancementTwoTest.cpp
BuildDependencyGraphTestBuild ==
    /\ \E order \in IterationOrders :
          courses' = BuildEdgesTestBuildFrom(ClearDependentsTestBuild(courses), order, 1)
    /\ rebuilds' = IF rebuilds < 2 THEN rebuilds + 1 ELSE rebuilds
    /\ result' = Result("BuildDependencyGraph", <<>>, "ok", "", FALSE, <<>>)
    /\ UNCHANGED <<nodes, root, courseMap>>

\* the lambda processPrerequisites of the test build's GetPrerequisiteOrder
RECURSIVE processPrerequisites(_, _, _)
RECURSIVE processPrerequisitesFrom(_, _, _, _)
processPrerequisites(current, visited, Stack) ==
    IF current = 0 THEN [visited |-> visited, Stack |-> Stack]
    ELSE processPrerequisitesFrom(current, 1, visited \cup {courses[current].courseId}, Stack)

processPrerequisitesFrom(current, j, visited, Stack) ==
    IF j > Len(courses[current].prereqs)
    THEN [visited |-> visited, Stack |-> Append(Stack, current)]
    ELSE LET prereqId == courses[current].prereqs[j]
             prereq == FindCourse(prereqId)
         IN IF prereq # 0 /\ prereqId \notin visited
            THEN LET r == processPrerequisites(prereq, visited, Stack)
                 IN processPrerequisitesFrom(current, j + 1, r.visited, r.Stack)
            ELSE processPrerequisitesFrom(current, j + 1, visited, Stack)

\* the loop of the test build over the start course's prerequisites
RECURSIVE ProcessAllPrereqsFrom(_, _, _, _)
ProcessAllPrereqsFrom(course, j, visited, Stack) ==
    IF j > Len(courses[course].prereqs) THEN Stack
    ELSE LET prereqId == courses[course].prereqs[j]
             prereq == FindCourse(prereqId)
         IN IF prereq # 0 /\ prereqId \notin visited
            THEN LET r == processPrerequisites(prereq, visited, Stack)
                 IN ProcessAllPrereqsFrom(course, j + 1, r.visited, r.Stack)
            ELSE ProcessAllPrereqsFrom(course, j + 1, visited, Stack)

\* the test build's GetPrerequisiteOrder without its cycle check
GetPrerequisiteOrderTestBuildUnchecked(courseId) ==
    LET course == FindCourse(courseId)
    IN IF course = 0
       THEN Result("GetPrerequisiteOrder", courseId, "invalid_argument", "lookup", FALSE, <<>>)
       ELSE Result("GetPrerequisiteOrder", courseId, "ok", "sort", FALSE,
                   Reverse(PopAll(ProcessAllPrereqsFrom(course, 1, {}, <<>>))))

\* GetPrerequisiteOrder of the test build: the exception thrown or the vector returned
GetPrerequisiteOrderTestBuildResult(courseId) ==
    LET course == FindCourse(courseId)
    IN IF course = 0
       THEN Result("GetPrerequisiteOrder", courseId, "invalid_argument", "lookup", FALSE, <<>>)
       ELSE IF hasCycleTestBuild(courses, course, {}, {}).ret
       THEN Result("GetPrerequisiteOrder", courseId, "runtime_error", "cycle check", FALSE, <<>>)
       ELSE Result("GetPrerequisiteOrder", courseId, "ok", "sort", FALSE,
                   Reverse(PopAll(ProcessAllPrereqsFrom(course, 1, {}, <<>>))))

\* the call with the flags its cycle check writes
GetPrerequisiteOrderTestBuild ==
    \E courseId \in GraphKeySet :
        /\ result' = GetPrerequisiteOrderTestBuildResult(courseId)
        /\ courses' = IF FindCourse(courseId) = 0 THEN courses
                      ELSE hasCycleTestBuild(courses, FindCourse(courseId), {}, {}).cs
        /\ UNCHANGED <<nodes, root, courseMap, rebuilds>>

\* the small catalogs of InsertRead, inserted by the test build
InsertReadTestBuild ==
    /\ Len(courses) < Len(GraphKeys) - 1
    /\ \E prereqs \in SeqsUpTo(GraphKeySet, MaxReadEdges - TotalEdges) :
          InsertCourseTestBuild(Course(GraphKeys[Len(courses) + 1], GraphTitle, prereqs))

\* ---------------------------------------------------------------- specifications
Next ==
    \/ Insert
    \/ FindCourseCall
    \/ PrintSampleSchedule
    \/ BuildDependencyGraph

Spec == Init /\ [][Next]_vars

NextGraph ==
    \/ InsertGraph
    \/ HasPrerequisiteCycle
    \/ GetPrerequisiteOrder

SpecGraph == Init /\ [][NextGraph]_vars

NextLeaves ==
    \/ InsertGraphPartial
    \/ HasPrerequisiteCycle
    \/ GetPrerequisiteOrder

SpecLeaves == Init /\ [][NextLeaves]_vars

NextValidate ==
    \/ InsertGraphPartial
    \/ ValidateAllPrerequisites

SpecValidate == Init /\ [][NextValidate]_vars

NextReads ==
    \/ InsertRead
    \/ BuildDependencyGraph
    \/ FindCourseCall
    \/ PrintSampleSchedule
    \/ HasPrerequisiteCycle
    \/ GetPrerequisiteOrder

SpecReads == Init /\ [][NextReads]_vars

NextTestReads ==
    \/ InsertReadTestBuild
    \/ BuildDependencyGraphTestBuild
    \/ FindCourseCall
    \/ PrintSampleSchedule
    \/ HasPrerequisiteCycleTestBuild
    \/ GetPrerequisiteOrderTestBuild

SpecTestReads == Init /\ [][NextTestReads]_vars

\* the graph calls of EnhancementTwo.cpp and of EnhancementTwoTest.cpp over one
\* catalog: the runs of each build alone are among the runs of the two
NextBuilds ==
    \/ InsertBuilds
    \/ BuildDependencyGraph
    \/ BuildDependencyGraphTestBuild
    \/ HasPrerequisiteCycle
    \/ GetPrerequisiteOrder
    \/ HasPrerequisiteCycleTestBuild
    \/ GetPrerequisiteOrderTestBuild

SpecBuilds == Init /\ [][NextBuilds]_vars

FindCourseBetweenRebuilds == BetweenCalls /\ FindCourseCall

PrintSampleScheduleBetweenRebuilds == BetweenCalls /\ PrintSampleSchedule

HasPrerequisiteCycleBetweenRebuilds == BetweenCalls /\ HasPrerequisiteCycle

GetPrerequisiteOrderBetweenRebuilds == BetweenCalls /\ GetPrerequisiteOrder

NextSteps ==
    \/ InsertBetweenRebuilds
    \/ RebuildEnter
    \/ RebuildClearStep
    \/ RebuildAddStep
    \/ FindCourseBetweenRebuilds
    \/ PrintSampleScheduleBetweenRebuilds
    \/ HasPrerequisiteCycleBetweenRebuilds
    \/ GetPrerequisiteOrderBetweenRebuilds

SpecSteps == Init /\ [][NextSteps]_vars

NextTree ==
    \/ InsertOriginal
    \/ InsertEnhanced
    \/ InsertTreeTestBuild
    \/ PrintSampleSchedule

SpecTree == Init /\ [][NextTree]_vars

NextLoad ==
    \/ loadDataStructure
    \/ PrintCourseInformation

SpecLoad == Init /\ [][NextLoad]_vars

NextKey == IsValidCourseIdCall

SpecKey == Init /\ [][NextKey]_vars

NextTestBuild == InsertTestBuild

SpecTestBuild == Init /\ [][NextTestBuild]_vars

\* ---------------------------------------------------------------- reference notions
\* the record a key resolves to, and the prerequisite relation between such records
CatalogKeys == DOMAIN courseMap

Record(k) == courses[courseMap[k]]

Edge(a, b) == a \in CatalogKeys /\ b \in CatalogKeys /\ b \in Range(Record(a).prereqs)

Successors(S) == {b \in CatalogKeys : \E a \in S : Edge(a, b)}

RECURSIVE Closure(_)
Closure(S) == LET T == S \cup Successors(S) IN IF T = S THEN S ELSE Closure(T)

\* the keys reached from k by one or more prerequisite edges
ReachablePlus(k) == Closure(Successors({k}))

OnCycle(k) == k \in ReachablePlus(k)

CycleReachableFrom(start) == \E k \in {start} \cup ReachablePlus(start) : OnCycle(k)

KeysOf(s) == [i \in DOMAIN s |-> courses[s[i]].courseId]

NoRepeats(s) == \A i, j \in DOMAIN s : i # j => s[i] # s[j]

Count(s, x) == Cardinality({i \in DOMAIN s : s[i] = x})

Rebuilt == rebuilds >= 1

\* ---------------------------------------------------------------- claims
\* C1: an Insert whose key is already in the catalog fails and changes nothing:
\* the heap of records, the tree and the hash map are as before the call.
C1_DuplicateInsertRejected ==
    [][(result'.op = "Insert" /\ result'.arg \in CatalogKeys)
         => (result'.status # "ok" /\ UNCHANGED <<courses, nodes, root, courseMap>>)]_vars

\* C2: the in-order enumeration lists keys in strictly ascending order.
C2_EnumerationStrictlyAscending ==
    result.op = "PrintSampleSchedule"
        => \A i \in 1..(Len(result.seq) - 1) :
              StrLess(KeysOf(result.seq)[i], KeysOf(result.seq)[i + 1])

\* C3: HasPrerequisiteCycle(start) returns true iff a cycle of prerequisite edges
\* between catalog records is reachable from start.
C3_HasCycleIffCycleReachable ==
    (result.op = "HasPrerequisiteCycle" /\ result.status = "ok")
        => (result.bool <=> CycleReachableFrom(result.arg))

\* a cycle that is reachable from the start key but does not pass through it
C3_Witness ==
    /\ result.op = "HasPrerequisiteCycle"
    /\ result.status = "ok"
    /\ result.bool
    /\ ~OnCycle(result.arg)

\* C4: in the sequence GetPrerequisiteOrder returns, every record comes after all of
\* its catalog-resident prerequisites, no record depends on a later one, and
\* the chain CS100 <- CS200 <- CS300 gives exactly [CS100, CS200] for CS300.
ChainCatalog ==
    /\ {CS100, CS200, CS300} \subseteq CatalogKeys
    /\ Record(CS100).prereqs = <<>>
    /\ Record(CS200).prereqs = <<CS100>>
    /\ Record(CS300).prereqs = <<CS200>>

C4_PrerequisitesFirst ==
    (result.op = "GetPrerequisiteOrder" /\ result.status = "ok")
        => /\ \A i \in DOMAIN result.seq :
                 \A p \in Range(courses[result.seq[i]].prereqs) :
                    FindCourse(p) # 0 => \E j \in 1..(i - 1) : result.seq[j] = FindCourse(p)
           /\ \A i, j \in DOMAIN result.seq :
                 i < j => KeysOf(result.seq)[j] \notin ReachablePlus(KeysOf(result.seq)[i])
           /\ (ChainCatalog /\ result.arg = CS300) => KeysOf(result.seq) = <<CS100, CS200>>

C4_Witness ==
    /\ result.op = "GetPrerequisiteOrder"
    /\ result.status = "ok"
    /\ ChainCatalog
    /\ result.arg = CS300
    /\ KeysOf(result.seq) = <<CS100, CS200>>

\* C5: the returned sequence holds exactly the catalog records reachable from start
\* by one or more prerequisite edges, each once, and never start itself.
C5_ExactlyReachableOnce ==
    (result.op = "GetPrerequisiteOrder" /\ result.status = "ok")
        => /\ NoRepeats(result.seq)
           /\ Range(result.seq) = {courseMap[k] : k \in ReachablePlus(result.arg)}
           /\ FindCourse(result.arg) \notin Range(result.seq)
           /\ Record(result.arg).prereqs = <<>> => result.seq = <<>>
           /\ (ChainCatalog /\ CS400 \in CatalogKeys /\ Record(CS400).prereqs = <<CS300>>
                  /\ result.arg = CS400) => Len(result.seq) = 3

\* a prerequisite reached by two paths, one of them through another
\* prerequisite, is listed once
C5_Witness ==
    /\ result.op = "GetPrerequisiteOrder"
    /\ result.status = "ok"
    /\ \E a, c \in CatalogKeys :
          /\ a # c
          /\ Edge(result.arg, a) /\ Edge(a, c)
          /\ \E b \in CatalogKeys \ {a} :
                /\ b = result.arg \/ Edge(result.arg, b)
                /\ Edge(b, c)
          /\ Count(result.seq, courseMap[c]) = 1

\* C6: GetPrerequisiteOrder on a start key from which a cycle is reachable throws at
\* the cycle check with no sequence; the sort is reached only when the check is false.
C6_CycleRejectedBeforeSort ==
    (result.op = "GetPrerequisiteOrder" /\ FindCourse(result.arg) # 0)
        => /\ CycleReachableFrom(result.arg)
                 => (result.status = "runtime_error" /\ result.phase = "cycle check"
                       /\ result.seq = <<>>)
           /\ result.phase = "sort" => ~HasPrerequisiteCycleRet(result.arg)

C6_Witness ==
    /\ result.op = "GetPrerequisiteOrder"
    /\ result.status = "runtime_error"
    /\ CycleReachableFrom(result.arg)
    /\ ~OnCycle(result.arg)

C9_DependentsAreSets ==
    Rebuilt => \A k \in CatalogKeys : NoRepeats(Record(k).dependentCourses)

\* C10: a BuildDependencyGraph that follows another with no Insert in between
\* leaves every record's dependents with the same keys in the same multiplicity.
C10_RebuildIdempotent ==
    [][(Rebuilt /\ result'.op = "BuildDependencyGraph")
         => \A i \in DOMAIN courses :
               \A k \in Range(courses[i].dependentCourses)
                        \cup Range(courses'[i].dependentCourses) :
                  Count(courses'[i].dependentCourses, k)
                      = Count(courses[i].dependentCourses, k)]_vars

C10_Witness ==
    /\ rebuilds = 2
    /\ \E k \in CatalogKeys : \E d \in CatalogKeys :
          Count(Record(k).dependentCourses, d) = 2

\* C11: BuildDependencyGraph changes dependents only: the heap holds the same
\* records, each with the same key, title and prerequisite sequence (order,
\* repeated keys and self-references included) as before the call.
C11_RebuildKeepsDeclarations ==
    [][result'.op = "BuildDependencyGraph"
         => /\ DOMAIN courses' = DOMAIN courses
            /\ \A i \in DOMAIN courses :
                  /\ courses'[i].courseId = courses[i].courseId
                  /\ courses'[i].courseTitle = courses[i].courseTitle
                  /\ courses'[i].prereqs = courses[i].prereqs
            /\ UNCHANGED <<nodes, root, courseMap>>]_vars

\* a rebuilt record that still names itself twice, under its title
C11_Witness ==
    /\ result.op = "BuildDependencyGraph"
    /\ \E r \in CatalogKeys :
          /\ Record(r).prereqs = <<r, r>>
          /\ Record(r).dependentCourses = <<r, r>>
          /\ Record(r).courseTitle \in Titles

\* C12: FindCourse(K) returns a record that was inserted under K when a
\* successful Insert stored one, and nothing (no error) when none did.
InsertedUnder(k) == {i \in DOMAIN courses : courses[i].courseId = k}

C12_FindReturnsInserted ==
    result.op = "FindCourse"
        => /\ result.status = "ok"
           /\ InsertedUnder(result.arg) # {}
                 => (result.bool /\ Len(result.seq) = 1
                       /\ result.seq[1] \in InsertedUnder(result.arg))
           /\ InsertedUnder(result.arg) = {} => (~result.bool /\ result.seq = <<>>)

\* one key found, with its only record, in a catalog that never received the
\* other key
C12_Witness ==
    /\ result.op = "FindCourse"
    /\ result.bool
    /\ InsertedUnder(result.arg) = {result.seq[1]}
    /\ \E k \in KeyPool : InsertedUnder(k) = {}

\* C13: an Insert whose key fails the format check throws invalid_argument and
\* leaves the heap of records, the tree and the hash map as they were.
C13_InvalidKeyInsertChangesNothing ==
    [][(result'.op = "Insert" /\ ~isValidCourseId(result'.arg))
         => (result'.status = "invalid_argument"
               /\ UNCHANGED <<courses, nodes, root, courseMap>>)]_vars

\* the rejected key CS1 offered to a catalog that already holds records
C13_Witness ==
    /\ result.op = "Insert"
    /\ result.arg = CS1
    /\ result.status = "invalid_argument"
    /\ courses # <<>>
    /\ FindCourse(CS1) = 0

\* the shape "2 to 4 letters followed by 3 or more digits and nothing else"
Alphabetic(c) == c \in (65..90) \cup (97..122)

Numeric(c) == c \in 48..57

LettersThenDigits(k) ==
    \E a \in 2..4 :
        /\ Len(k) >= a + 3
        /\ \A i \in 1..a : Alphabetic(k[i])
        /\ \A i \in (a + 1)..Len(k) : Numeric(k[i])

\* C14: isValidCourseId(k) is true iff k is 2 to 4 letters followed by 3 or
\* more digits, with no other character, and k has at most 20 characters.
C14_ValidIffLettersThenDigits ==
    result.op = "isValidCourseId"
        => (result.bool <=> (LettersThenDigits(result.arg) /\ Len(result.arg) <= 20))

\* the longest key that is accepted
C14_Witness ==
    /\ result.op = "isValidCourseId"
    /\ result.bool
    /\ Len(result.arg) = 20

\* C15: the test build's Insert throws invalid_argument for every key that is
\* not 2 to 4 letters followed by 3 or more digits.
C15_TestBuildRejectsOtherShapes ==
    (result.op = "Insert" /\ ~LettersThenDigits(result.arg))
        => result.status = "invalid_argument"

\* a key that begins with one of the test-case prefixes
StartsWithTestPrefix(k) ==
    \E p \in DOMAIN validPrefixes :
        /\ Len(k) >= Len(validPrefixes[p])
        /\ \A i \in 1..Len(validPrefixes[p]) : k[i] = validPrefixes[p][i]

\* C15 (amended): the test build's Insert throws invalid_argument for every key
\* that is not 2 to 4 letters followed by 3 or more digits, unless the key
\* begins with a test-case prefix; CS1, TOOLONG123456, 123456 and ABCDEF are
\* rejected.
C15_TestBuildRejectsUnlessPrefixed ==
    result.op = "Insert"
        => /\ (~LettersThenDigits(result.arg) /\ ~StartsWithTestPrefix(result.arg))
                 => result.status = "invalid_argument"
           /\ result.arg \in invalidIds => result.status = "invalid_argument"

\* the longest id of the test suite rejected
C15_Witness ==
    /\ result.op = "Insert"
    /\ result.arg = TOOLONG123456
    /\ result.status = "invalid_argument"
    /\ courses = <<>>

\* C16: HasPrerequisiteCycle(k) and GetPrerequisiteOrder(k) for a k that is not
\* a catalog key throw invalid_argument at the lookup, before any traversal,
\* with no value returned, and leave the catalog as it was.
C16_AbsentStartNotFound ==
    [][(result'.op \in {"HasPrerequisiteCycle", "GetPrerequisiteOrder"}
          /\ FindCourse(result'.arg) = 0)
         => /\ result'.status = "invalid_argument"
            /\ result'.phase = "lookup"
            /\ ~result'.bool
            /\ result'.seq = <<>>
            /\ UNCHANGED <<courses, nodes, root, courseMap>>]_vars

\* the start key is absent although a catalog record names it as a prerequisite
C16_Witness ==
    /\ result.op = "HasPrerequisiteCycle"
    /\ result.status = "invalid_argument"
    /\ FindCourse(result.arg) = 0
    /\ \E k \in CatalogKeys : result.arg \in Range(Record(k).prereqs)

\* the prerequisite list of the record of key k without its dangling keys, and
\* the depth-first order, prerequisites first, over such lists
Resident(p) == p \in CatalogKeys

StrippedPrereqs(k) == SelectSeq(Record(k).prereqs, Resident)

RECURSIVE StrippedVisit(_, _, _)
StrippedVisit(todo, visited, out) ==
    IF todo = <<>> THEN [visited |-> visited, out |-> out]
    ELSE IF Head(todo) \in visited THEN StrippedVisit(Tail(todo), visited, out)
    ELSE LET r == StrippedVisit(StrippedPrereqs(Head(todo)), visited \cup {Head(todo)}, out)
         IN StrippedVisit(Tail(todo), r.visited, Append(r.out, Head(todo)))

StrippedOrder(start) == StrippedVisit(StrippedPrereqs(start), {}, <<>>).out

HasDangling(k) == \E p \in Range(Record(k).prereqs) : p \notin CatalogKeys

\* C17: prerequisite keys that resolve to no record count as leaves: the cycle
\* check is true only for a cycle among catalog records, GetPrerequisiteOrder
\* fails only for such a cycle, its sequence holds catalog records only, and
\* both results are those of the catalog with the dangling keys removed from
\* every prerequisite list.
C17_DanglingKeysAreLeaves ==
    /\ (result.op = "HasPrerequisiteCycle" /\ result.status = "ok")
          => (result.bool <=> CycleReachableFrom(result.arg))
    /\ (result.op = "GetPrerequisiteOrder" /\ FindCourse(result.arg) # 0)
          => /\ result.status # "ok" => CycleReachableFrom(result.arg)
             /\ result.status = "ok"
                   => /\ \A i \in DOMAIN result.seq :
                            /\ result.seq[i] \in DOMAIN courses
                            /\ FindCourse(courses[result.seq[i]].courseId) = result.seq[i]
                      /\ KeysOf(result.seq) = StrippedOrder(result.arg)

\* the start names a dangling key between two resident prerequisites, one of
\* which has a dangling prerequisite of its own
C17_Witness ==
    /\ result.op = "GetPrerequisiteOrder"
    /\ result.status = "ok"
    /\ Len(result.seq) = 2
    /\ \E i, j, l \in DOMAIN Record(result.arg).prereqs :
          /\ i < j /\ j < l
          /\ Resident(Record(result.arg).prereqs[i])
          /\ ~Resident(Record(result.arg).prereqs[j])
          /\ Resident(Record(result.arg).prereqs[l])
    /\ \E i \in DOMAIN result.seq : HasDangling(courses[result.seq[i]].courseId)

\* the three conditions of a well-formed prerequisite list
SelfReferencing(k) == k \in Range(Record(k).prereqs)

WellFormed(k) ==
    /\ ~SelfReferencing(k)
    /\ NoRepeats(Record(k).prereqs)
    /\ ~HasDangling(k)

ReportedFor(k) == \E i \in DOMAIN result.seq : result.seq[i].courseId = k

\* C18: ValidateAllPrerequisites returns true iff every catalog record's
\* prerequisite list has no self-reference, no repeated key and no dangling
\* key, and every record that breaks one of the three is reported.
C18_ValidIffAllWellFormed ==
    result.op = "ValidateAllPrerequisites"
        => /\ result.bool <=> \A k \in CatalogKeys : WellFormed(k)
           /\ \A k \in CatalogKeys : ~WellFormed(k) => ReportedFor(k)

\* C19: one pass reports the violations of every record: each dangling key of
\* each catalog record is in the report, whatever other records contain.
C19_EveryViolationReported ==
    result.op = "ValidateAllPrerequisites"
        => \A k \in CatalogKeys : \A p \in Range(Record(k).prereqs) :
              p \notin CatalogKeys
                 => \E i \in DOMAIN result.seq :
                       result.seq[i].courseId = k /\ result.seq[i].prereqId = p

\* C20: every record that lists its own key is reported with a SelfReference
\* violation, is found under its key and is in the enumeration.
C20_SelfReferenceReported ==
    result.op = "ValidateAllPrerequisites"
        => \A k \in CatalogKeys :
              SelfReferencing(k)
                 => /\ \E i \in DOMAIN result.seq :
                          /\ result.seq[i].what = "SelfReference"
                          /\ result.seq[i].courseId = k
                    /\ FindCourse(k) # 0
                    /\ courses[FindCourse(k)].courseId = k
                    /\ FindCourse(k) \in Range(printSampleSchedule(root))

ReadOnlyCalls ==
    {"FindCourse", "PrintSampleSchedule", "HasPrerequisiteCycle", "GetPrerequisiteOrder"}

\* C21: FindCourse, the enumeration, HasPrerequisiteCycle and
\* GetPrerequisiteOrder leave every record (flags included), the tree and the
\* hash map as they were, whether they succeed or fail; the same call repeated
\* gives the same result; an existing record changes only in BuildDependencyGraph.
C21_QueriesReadOnly ==
    [][/\ result'.op \in ReadOnlyCalls => UNCHANGED <<courses, nodes, root, courseMap>>
       /\ (result'.op \in ReadOnlyCalls /\ result'.op = result.op /\ result'.arg = result.arg)
             => result' = result
       /\ (\E i \in DOMAIN courses : courses'[i] # courses[i])
             => result'.op = "BuildDependencyGraph"]_vars

\* a cycle was found in a rebuilt catalog and no record carries a flag
C21_Witness ==
    /\ result.op = "HasPrerequisiteCycle"
    /\ result.bool
    /\ Rebuilt
    /\ \E i \in DOMAIN courses : courses[i].dependentCourses # <<>>
    /\ \A i \in DOMAIN courses : ~courses[i].isProcessing /\ ~courses[i].isVisited

\* C22: a query that shows dependents runs after a BuildDependencyGraph that
\* followed the last change of the record set, so the "Required by" list it
\* prints names exactly the catalog records that declare the shown course.
C22_ReadsFollowRebuild ==
    (result.op = "PrintCourseInformation" /\ result.bool)
        => /\ Rebuilt
           /\ \A r \in CatalogKeys :
                 result.arg \in Range(Record(r).prereqs)
                    => r \in Range(courses[result.seq[1]].dependentCourses)
           /\ \A d \in Range(courses[result.seq[1]].dependentCourses) :
                 d \in CatalogKeys /\ result.arg \in Range(Record(d).prereqs)

\* the traversal state of key k at a step, and the call whose steps are examined
TraversalState(step, k) ==
    IF k \in step.recursionStack THEN "on-stack"
    ELSE IF k \in step.visited THEN "done" ELSE "unvisited"

Forward(a, b) ==
    \/ a = b
    \/ a = "unvisited" /\ b = "on-stack"
    \/ a = "on-stack" /\ b = "done"

CycleCallReturned ==
    result.op = "HasPrerequisiteCycle" /\ result.status = "ok"

\* C23: during a HasPrerequisiteCycle traversal the recursion stack is a subset
\* of the visited set, a key's state only moves unvisited -> on-stack -> done,
\* and when the call returns false every key reachable from the start is done
\* and the recursion stack is empty.
C23_TraversalStates ==
    CycleCallReturned =>
        LET t == HasPrerequisiteCycleSteps(result.arg)
        IN /\ t.ret = result.bool
           /\ \A i \in DOMAIN t.steps : t.steps[i].recursionStack \subseteq t.steps[i].visited
           /\ \A k \in CatalogKeys : Forward("unvisited", TraversalState(t.steps[1], k))
           /\ \A i \in 1..(Len(t.steps) - 1) : \A k \in CatalogKeys :
                 Forward(TraversalState(t.steps[i], k), TraversalState(t.steps[i + 1], k))
           /\ ~result.bool =>
                 /\ t.recursionStack = {}
                 /\ \A k \in {result.arg} \cup ReachablePlus(result.arg) :
                       TraversalState(t.steps[Len(t.steps)], k) = "done"

\* a traversal that returned false after it met a finished record again
C23_Witness ==
    /\ CycleCallReturned
    /\ ~result.bool
    /\ Len(HasPrerequisiteCycleSteps(result.arg).steps) = 6
    /\ \E a, c \in {result.arg} \cup ReachablePlus(result.arg) :
          \E b \in ReachablePlus(result.arg) :
             a # c /\ b \notin {a, c} /\ Edge(a, b) /\ Edge(c, b)

\* C24: at every step of a HasPrerequisiteCycle traversal the recursion stack
\* holds exactly the keys of the active call path, so a key found on the stack
\* is an ancestor of the current record; the traversal of EnhancementTwoTest.cpp
\* ends with the same answer and the same two sets.
C24_StackIsActivePath ==
    CycleCallReturned =>
        LET t == HasPrerequisiteCycleSteps(result.arg)
            u == hasCycleTestBuild(courses, FindCourse(result.arg), {}, {})
        IN /\ t.ret = result.bool
           /\ \A i \in DOMAIN t.steps :
                 /\ t.steps[i].recursionStack = Range(t.steps[i].path)
                 /\ NoRepeats(t.steps[i].path)
                 /\ t.steps[i].kind = "cycle" => t.steps[i].courseId \in Range(t.steps[i].path)
           /\ u.ret = t.ret /\ u.visited = t.visited /\ u.recursionStack = t.recursionStack

\* a record finished by one branch is listed again by a sibling entered later
C24_Witness ==
    /\ CycleCallReturned
    /\ ~result.bool
    /\ LET t == HasPrerequisiteCycleSteps(result.arg)
       IN \E i, j \in DOMAIN t.steps :
             /\ i < j
             /\ t.steps[i].kind = "return"
             /\ t.steps[j].kind = "enter"
             /\ Len(t.steps[j].path) = 2
             /\ Edge(t.steps[j].courseId, t.steps[i].courseId)

Entries(steps, k) ==
    Cardinality({i \in DOMAIN steps : steps[i].kind = "enter" /\ steps[i].courseId = k})

\* C25: HasPrerequisiteCycle and GetPrerequisiteOrder end after a number of
\* steps bounded by the number of records: the cycle check enters each key at
\* most once and takes at most two steps per key, and the order holds each
\* record, pushed once when the sort leaves it, at most once (in either build).
C25_BoundedTraversals ==
    /\ CycleCallReturned =>
          LET t == HasPrerequisiteCycleSteps(result.arg)
          IN /\ t.ret = result.bool
             /\ \A k \in CatalogKeys : Entries(t.steps, k) <= 1
             /\ Len(t.steps) <= 2 * Cardinality(CatalogKeys)
    /\ (result.op = "GetPrerequisiteOrder" /\ result.arg \in CatalogKeys) =>
          /\ result.status \in {"ok", "runtime_error"}
          /\ NoRepeats(result.seq)
          /\ Len(result.seq) <= Cardinality(CatalogKeys)
          /\ LET u == GetPrerequisiteOrderTestBuildResult(result.arg)
             IN NoRepeats(u.seq) /\ Len(u.seq) <= Cardinality(CatalogKeys)

\* a cycle check over a catalog with a self-reference, a repeated key and a
\* dangling key that entered every record
C25_Witness ==
    /\ CycleCallReturned
    /\ Len(courses) = 3
    /\ \E k \in CatalogKeys : Edge(k, k)
    /\ \E k \in CatalogKeys : ~NoRepeats(Record(k).prereqs)
    /\ \E k \in CatalogKeys : HasDangling(k)
    /\ Cardinality({k \in CatalogKeys :
                       Entries(HasPrerequisiteCycleSteps(result.arg).steps, k) = 1}) >= 2

RebuildInvariant ==
    \A r \in CatalogKeys : \A d \in Range(Record(r).prereqs) :
        d \in CatalogKeys => r \in Range(Record(d).dependentCourses)

PartlyCleared ==
    /\ Rebuilding
    /\ Rebuilt
    /\ ~RebuildInvariant

\* the nodes of the subtree under node n
RECURSIVE SubtreeNodes(_)
SubtreeNodes(n) ==
    IF n = 0 THEN {}
    ELSE {n} \cup SubtreeNodes(nodes[n].left) \cup SubtreeNodes(nodes[n].right)

NodeKey(n) == courses[nodes[n].course].courseId

SearchTreeOrdering ==
    \A n \in DOMAIN nodes :
        /\ \A m \in SubtreeNodes(nodes[n].left) : StrLess(NodeKey(m), NodeKey(n))
        /\ \A m \in SubtreeNodes(nodes[n].right) : ~StrLess(NodeKey(m), NodeKey(n))

\* C27: after any sequence of Inserts of the three versions every node has only
\* smaller keys in its left subtree and only greater or equal keys in its right
\* subtree; every accepted record has its node, and a link once set and a
\* record once stored stay as they are; the in-order traversal lists every
\* record once, keys non-decreasing, equal keys in insertion order.
C27_SearchTreeKept ==
    [][/\ SearchTreeOrdering'
       /\ Len(nodes') = Len(courses')
       /\ \A n \in DOMAIN nodes' : nodes'[n].course = n
       /\ SubtreeNodes(root)' = DOMAIN nodes'
       /\ \A n \in DOMAIN nodes :
             /\ courses'[n].courseId = courses[n].courseId
             /\ nodes[n].left # 0 => nodes'[n].left = nodes[n].left
             /\ nodes[n].right # 0 => nodes'[n].right = nodes[n].right
       /\ root # 0 => root' = root
       /\ \A t \in {printSampleSchedule(root)'} :
             /\ Len(t) = Len(courses')
             /\ \A i, j \in DOMAIN t :
                   i < j => /\ ~StrLess(courses'[t[j]].courseId, courses'[t[i]].courseId)
                            /\ courses'[t[j]].courseId = courses'[t[i]].courseId
                                  => t[i] < t[j]]_vars

\* a tree whose root has both children, with a key stored twice and a key that
\* only the first version accepts
C27_Witness ==
    /\ Len(nodes) = MaxTreeNodes
    /\ \E n, m \in DOMAIN nodes : n # m /\ NodeKey(n) = NodeKey(m)
    /\ \E n \in DOMAIN nodes : nodes[n].left # 0 /\ nodes[n].right # 0
    /\ \E n \in DOMAIN nodes : ~isValidCourseId(NodeKey(n))
    /\ result.op = "PrintSampleSchedule"

\* C28: the tree has one node per hash-map entry, and for every key the record
\* the tree search of PrintCourseInformation reaches is the record FindCourse
\* returns.
C28_IndexesAgree ==
    /\ Len(nodes) = Cardinality(DOMAIN courseMap)
    /\ \A k \in KeyPool \cup InvalidKeys : printCourseInformation(root, k) = FindCourse(k)

\* C29: on the same catalog GetPrerequisiteOrder of EnhancementTwo.cpp and of
\* EnhancementTwoTest.cpp end alike: the same kind of error, or the same
\* sequence, which is the depth-first post-order of the start's resolved
\* prerequisites in declared order.
C29_OrdersAgree ==
    result.op = "GetPrerequisiteOrder"
        => /\ result = GetPrerequisiteOrderResult(result.arg)
           /\ GetPrerequisiteOrderTestBuildResult(result.arg).status = result.status
           /\ GetPrerequisiteOrderTestBuildResult(result.arg).seq = result.seq
           /\ result.status = "ok" => KeysOf(result.seq) = StrippedOrder(result.arg)

\* an order of two records from lists that hold a repeated and a dangling key
C29_Witness ==
    /\ result.op = "GetPrerequisiteOrder"
    /\ result.status = "ok"
    /\ Len(result.seq) = 2
    /\ HasDangling(result.arg)
    /\ \E k \in CatalogKeys : ~NoRepeats(Record(k).prereqs)
    /\ StrLess(courses[result.seq[2]].courseId, courses[result.seq[1]].courseId)

\* what the catalog declares: for every key, the catalog keys among its
\* prerequisites, each once, in the order of their first occurrence
DeclaredOf(cs) ==
    [k \in CatalogKeys |-> RemoveRepeats(SelectSeq(cs[courseMap[k]].prereqs, Resident))]

Declared == DeclaredOf(courses)

\* the keys reached from the keys of S by zero or more edges of P
RECURSIVE ReachOf(_, _)
ReachOf(P, S) ==
    LET T == S \cup UNION {Range(P[a]) : a \in S}
    IN IF T = S THEN S ELSE ReachOf(P, T)

\* a cycle of P is reachable from key k
CycleOf(P, k) ==
    \E a \in ReachOf(P, {k}) : a \in ReachOf(P, Range(P[a]))

RECURSIVE VisitOf(_, _, _, _)
VisitOf(P, todo, visited, out) ==
    IF todo = <<>> THEN [visited |-> visited, out |-> out]
    ELSE IF Head(todo) \in visited THEN VisitOf(P, Tail(todo), visited, out)
    ELSE LET r == VisitOf(P, P[Head(todo)], visited \cup {Head(todo)}, out)
         IN VisitOf(P, Tail(todo), r.visited, Append(r.out, Head(todo)))

\* the keys k reaches by the edges of P, prerequisites first
OrderOf(P, k) == VisitOf(P, P[k], {}, <<>>).out

\* C30: what HasPrerequisiteCycle and GetPrerequisiteOrder of either build
\* answer is told by the keys and the prerequisite lists alone, whatever the
\* dependents hold, and no BuildDependencyGraph of either build changes what
\* the catalog declares: the answers are the same after zero, one or several
\* rebuilds.
C30_ResultsIgnoreDependents ==
    [][\A P \in {Declared} :
         /\ (result'.op = "HasPrerequisiteCycle" /\ result'.arg \in CatalogKeys)
               => result'.bool = CycleOf(P, result'.arg)
         /\ (result'.op = "GetPrerequisiteOrder" /\ result'.arg \in CatalogKeys)
               => IF CycleOf(P, result'.arg)
                  THEN result'.status = "runtime_error"
                  ELSE /\ result'.status = "ok"
                       /\ [i \in DOMAIN result'.seq |-> courses[result'.seq[i]].courseId]
                             = OrderOf(P, result'.arg)
         /\ result'.op = "BuildDependencyGraph"
               => /\ courseMap' = courseMap
                  /\ \A rebuilt \in {courses'} : DeclaredOf(rebuilt) = P]_vars

\* an order returned after the second rebuild of a catalog in which a record
\* has dependents and a record lists a prerequisite twice
C30_Witness ==
    /\ result.op = "GetPrerequisiteOrder"
    /\ result.status = "ok"
    /\ result.seq # <<>>
    /\ rebuilds = 2
    /\ \E k \in CatalogKeys : Record(k).dependentCourses # <<>>
    /\ \E k \in CatalogKeys : ~NoRepeats(Record(k).prereqs)

====
